---- MODULE Spec2Model ----
(***************************************************************************)
(* pinlock: a single-threaded X11 client (src/main.rs).  main connects to  *)
(* the display server, Window::create builds one override-redirect window  *)
(* and requests a keyboard and a pointer grab, the loop blocks on          *)
(* wait_for_event and reports every event to stdout until a ButtonPress    *)
(* with detail 1 arrives, and Drop for Window ungrabs on the way out.      *)
(*                                                                         *)
(* The x11rb connection and the X server are the environment: every        *)
(* fallible call either succeeds or returns an error, requests are queued  *)
(* in the connection's write buffer until a flush hands them to the        *)
(* server, and the server processes them in the order they were issued.    *)
(***************************************************************************)
EXTENDS Integers, Sequences, FiniteSets, TLC

VARIABLES
    pc,          \* position of the single thread of control in main
    result,      \* value main is about to return: "none", "ok" or "err"
    exitStatus,  \* Running until the process has ended, then its exit status
    window,      \* the _window binding of main: NoWindow or [id |-> win]
    ids,         \* number of resource ids handed out by generate_id
    win,         \* local `win` of Window::create (0 = not yet generated)
    font,        \* local `font` of Window::create
    cursor,      \* local `cursor` of Window::create
    issued,      \* every request the client issued successfully, in order
    outbuf,      \* requests queued in the connection, not yet flushed
    srv,         \* the server's state as far as this client is concerned
    otherKb,     \* another client holds an active keyboard grab
    otherPtr,    \* another client holds an active pointer grab
    event,       \* the event bound by `let event = ...` (NoEvent outside)
    log,         \* one record per dispatched event: event, stdout lines, continue?
    nRecv,       \* number of events wait_for_event has returned
    failures,    \* steps whose call returned an error so far
    dropRuns     \* number of times Drop::drop has been entered

vars == << pc, result, exitStatus, window, ids, win, font, cursor, issued,
           outbuf, srv, otherKb, otherPtr, event, log, nRecv, failures,
           dropRuns >>

----------------------------------------------------------------------------
(* Bounds *)

\* number of events the server delivers in one run
MaxEvents == 2

----------------------------------------------------------------------------
(* Values *)

Running == -1
ExitSuccess == 0
\* main returned Err: the Termination impl of Result reports failure
ExitFailure == 1
\* a panic (an expect in drop) ends the process with Rust's panic status
ExitPanic == 101

NoWindow == [id |-> 0]
NoEvent == [kind |-> "None", detail |-> 0, state |-> 0, window |-> 0,
            x |-> 0, y |-> 0, width |-> 0, height |-> 0]

\* button / key codes carried in `detail`
Details == {1, 2, 3, 4, 5, 255}
\* modifier masks carried in `state`
States == {0, 1}
\* coordinates carried by the events
Coords == {0, 3}

\* the eight kinds main matches by name
RecognizedKinds == {"Expose", "ButtonPress", "ButtonRelease", "MotionNotify",
                    "EnterNotify", "LeaveNotify", "KeyPress", "KeyRelease"}
\* two of the kinds that fall to the `_` arm; Error is a protocol error
\* delivered as an event
OtherKinds == {"Error", "MapNotify"}

Ev(k, d, s, w, x, y, wd, ht) ==
    [kind |-> k, detail |-> d, state |-> s, window |-> w,
     x |-> x, y |-> y, width |-> wd, height |-> ht]

\* the events the server can deliver to the client whose window is w
Events(w) ==
    {Ev("Expose", 0, 0, w, x, 0, 1000, 800) : x \in Coords}
    \cup {Ev("ButtonPress", d, s, w, 0, 0, 0, 0) : d \in Details, s \in States}
    \cup {Ev("ButtonRelease", d, s, w, 0, 0, 0, 0) : d \in {1, 4}, s \in States}
    \cup {Ev(k, 0, 0, w, x, 0, 0, 0) :
              k \in {"MotionNotify", "EnterNotify", "LeaveNotify"}, x \in {0}}
    \cup {Ev(k, 38, s, w, 0, 0, 0, 0) : k \in {"KeyPress", "KeyRelease"}, s \in States}
    \cup {Ev(k, 0, 0, w, 0, 0, 0, 0) : k \in OtherKinds}

Req(op, id, arg) == [op |-> op, id |-> id, arg |-> arg]

InitSrv == [windows |-> {}, mapped |-> {}, focus |-> 0, fonts |-> {},
            cursors |-> {}, kbGrab |-> {}, ptrGrab |-> {},
            kbGrabbed |-> 0, ptrGrabbed |-> 0,
            kbUngrabs |-> 0, ptrUngrabs |-> 0,
            kbReleased |-> 0, ptrReleased |-> 0]

----------------------------------------------------------------------------
(* The server: one request at a time, in order *)

\* What the server does with one request of this client.  A grab is granted
\* when the grab window is viewable and no other client holds the device;
\* otherwise the reply carries a refusal status and nothing changes.  An
\* ungrab releases the device if this client holds it and is a no-op if not.
Serve(s, r) ==
    CASE r.op = "CreateWindow" ->
            [s EXCEPT !.windows = @ \cup {r.id}]
      [] r.op = "MapWindow" ->
            IF r.id \in s.windows THEN [s EXCEPT !.mapped = @ \cup {r.id}] ELSE s
      [] r.op = "SetInputFocus" ->
            IF r.id \in s.mapped THEN [s EXCEPT !.focus = r.id] ELSE s
      [] r.op = "GrabKeyboard" ->
            IF r.id \in s.mapped /\ ~otherKb
            THEN [s EXCEPT !.kbGrab = {r.id}, !.kbGrabbed = @ + 1]
            ELSE s
      [] r.op = "OpenFont" ->
            [s EXCEPT !.fonts = @ \cup {r.id}]
      [] r.op = "CreateGlyphCursor" ->
            IF r.arg \in s.fonts THEN [s EXCEPT !.cursors = @ \cup {r.id}] ELSE s
      [] r.op = "GrabPointer" ->
            IF r.id \in s.mapped /\ r.arg \in s.cursors /\ ~otherPtr
            THEN [s EXCEPT !.ptrGrab = {r.id}, !.ptrGrabbed = @ + 1]
            ELSE s
      [] r.op = "UngrabKeyboard" ->
            [s EXCEPT !.kbGrab = {}, !.kbUngrabs = @ + 1,
                      !.kbReleased = @ + (IF s.kbGrab # {} THEN 1 ELSE 0)]
      [] r.op = "UngrabPointer" ->
            [s EXCEPT !.ptrGrab = {}, !.ptrUngrabs = @ + 1,
                      !.ptrReleased = @ + (IF s.ptrGrab # {} THEN 1 ELSE 0)]
      [] OTHER -> s

RECURSIVE ServeAll(_, _)
ServeAll(s, rs) ==
    IF rs = << >> THEN s ELSE ServeAll(Serve(s, Head(rs)), Tail(rs))

----------------------------------------------------------------------------
(* Standard output: one record per println! *)

Line(fmt, args) == [fmt |-> fmt, args |-> args, dbg |-> ""]

\* println!("Unknown event: {:?}", event): the Debug form names the kind and
\* carries every field
DebugLine(ev) ==
    [fmt |-> "Unknown event",
     args |-> << ev.detail, ev.state, ev.window, ev.x, ev.y, ev.width, ev.height >>,
     dbg |-> ev.kind]

\* StateLine that adds up the modifier masks of the events handled so far
RECURSIVE SumStates(_)
SumStates(l) == IF l = << >> THEN 0 ELSE Head(l).ev.state + SumStates(Tail(l))

StateLine_Accumulating(ev) == Line("state", << ev.state + SumStates(log) >>)

\* println!("{:#?}", event.state)
StateLine(ev) == Line("state", << ev.state >>)

\* ButtonPressLines with the arms of 4 and 5 folded into the generic one
ButtonPressLines_NoWheel(ev) ==
    CASE ev.detail = 1 -> << >>
      [] OTHER ->
            << Line("Button pressed", << ev.detail, ev.window, ev.x, ev.y >>) >>

\* the inner match on event.detail of the ButtonPress arm
ButtonPressLines(ev) ==
    CASE ev.detail = 1 -> << >>
      [] ev.detail = 4 ->
            << Line("Wheel Button up", << ev.window, ev.x, ev.y >>) >>
      [] ev.detail = 5 ->
            << Line("Wheel Button down", << ev.window, ev.x, ev.y >>) >>
      [] OTHER ->
            << Line("Button pressed", << ev.detail, ev.window, ev.x, ev.y >>) >>

\* Report whose ButtonPress arm matches on the detail before it prints the
\* modifier state, so that the terminating press prints nothing
Report_BranchFirst(ev) ==
    CASE ev.kind = "Expose" ->
            << Line("Window exposed",
                    << ev.window, ev.x, ev.y, ev.width, ev.height >>) >>
      [] ev.kind = "ButtonPress" ->
            IF ev.detail = 1 THEN << >>
            ELSE ButtonPressLines(ev) \o << StateLine(ev) >>
      [] ev.kind = "ButtonRelease" ->
            << StateLine(ev),
               Line("Button released", << ev.detail, ev.window, ev.x, ev.y >>) >>
      [] ev.kind = "MotionNotify" ->
            << Line("Mouse moved", << ev.window, ev.x, ev.y >>) >>
      [] ev.kind = "EnterNotify" ->
            << Line("Mouse entered", << ev.window, ev.x, ev.y >>) >>
      [] ev.kind = "LeaveNotify" ->
            << Line("Mouse left", << ev.window, ev.x, ev.y >>) >>
      [] ev.kind = "KeyPress" ->
            << StateLine(ev), Line("Key pressed", << ev.window >>) >>
      [] ev.kind = "KeyRelease" ->
            << StateLine(ev), Line("Key released", << ev.window >>) >>
      [] OTHER ->
            << DebugLine(ev) >>

\* Report with an empty `_` arm
Report_SilentFallback(ev) ==
    CASE ev.kind = "Expose" ->
            << Line("Window exposed",
                    << ev.window, ev.x, ev.y, ev.width, ev.height >>) >>
      [] ev.kind = "ButtonPress" ->
            << StateLine(ev) >> \o ButtonPressLines(ev)
      [] ev.kind = "ButtonRelease" ->
            << StateLine(ev),
               Line("Button released", << ev.detail, ev.window, ev.x, ev.y >>) >>
      [] ev.kind = "MotionNotify" ->
            << Line("Mouse moved", << ev.window, ev.x, ev.y >>) >>
      [] ev.kind = "EnterNotify" ->
            << Line("Mouse entered", << ev.window, ev.x, ev.y >>) >>
      [] ev.kind = "LeaveNotify" ->
            << Line("Mouse left", << ev.window, ev.x, ev.y >>) >>
      [] ev.kind = "KeyPress" ->
            << StateLine(ev), Line("Key pressed", << ev.window >>) >>
      [] ev.kind = "KeyRelease" ->
            << StateLine(ev), Line("Key released", << ev.window >>) >>
      [] OTHER ->
            << >>

\* what the match prints for one event
Report(ev) ==
    CASE ev.kind = "Expose" ->
            << Line("Window exposed",
                    << ev.window, ev.x, ev.y, ev.width, ev.height >>) >>
      [] ev.kind = "ButtonPress" ->
            << StateLine(ev) >> \o ButtonPressLines(ev)
      [] ev.kind = "ButtonRelease" ->
            << StateLine(ev),
               Line("Button released", << ev.detail, ev.window, ev.x, ev.y >>) >>
      [] ev.kind = "MotionNotify" ->
            << Line("Mouse moved", << ev.window, ev.x, ev.y >>) >>
      [] ev.kind = "EnterNotify" ->
            << Line("Mouse entered", << ev.window, ev.x, ev.y >>) >>
      [] ev.kind = "LeaveNotify" ->
            << Line("Mouse left", << ev.window, ev.x, ev.y >>) >>
      [] ev.kind = "KeyPress" ->
            << StateLine(ev), Line("Key pressed", << ev.window >>) >>
      [] ev.kind = "KeyRelease" ->
            << StateLine(ev), Line("Key released", << ev.window >>) >>
      [] OTHER ->
            << DebugLine(ev) >>

\* Continues with the break taken for every ButtonPress
Continues_AnyButton(ev) == ev.kind # "ButtonPress"

\* Continues with the `1 => break` arm missing
Continues_Never(ev) == TRUE

\* FALSE exactly where the match evaluates `break Ok(())`
Continues(ev) == ~(ev.kind = "ButtonPress" /\ ev.detail = 1)

----------------------------------------------------------------------------
(* Outcomes of the fallible calls *)

Fail(step) == failures' = failures \cup {step}

\* `?` in Window::create, and then `?` in main: no Window value exists, so
\* nothing is dropped but the connection, and main returns the error
ReturnErr ==
    /\ pc' = "exited"
    /\ result' = "err"
    /\ exitStatus' = ExitFailure

\* MainStatus of a main that swallows the error
MainStatus_AlwaysSuccess(res) == ExitSuccess

\* status of the process when main returns `res`
MainStatus(res) == IF res = "ok" THEN ExitSuccess ELSE ExitFailure

\* an expect() in drop panics: nothing later in drop runs
Panic ==
    /\ pc' = "exited"
    /\ exitStatus' = ExitPanic

\* a request of Window::create: queued on success, `?` on error
CreateSend(step, r, next) ==
    /\ pc = step
    /\ \/ /\ issued' = Append(issued, r)
          /\ outbuf' = Append(outbuf, r)
          /\ pc' = next
          /\ UNCHANGED << result, exitStatus, failures >>
       \/ /\ Fail(step)
          /\ ReturnErr
          /\ UNCHANGED << issued, outbuf >>
    /\ UNCHANGED << window, ids, win, font, cursor, srv, otherKb, otherPtr,
                    event, log, nRecv, dropRuns >>

\* the server receives the first k queued requests
Deliver(k) ==
    /\ srv' = ServeAll(srv, SubSeq(outbuf, 1, k))
    /\ outbuf' = SubSeq(outbuf, k + 1, Len(outbuf))

----------------------------------------------------------------------------
(* main, lines 108-115 *)

\* Connect without the `?`: a failed connection is carried on with
Connect_IgnoreError ==
    /\ pc = "connect"
    /\ \/ /\ pc' = "gen_win"
          /\ UNCHANGED << result, exitStatus, failures >>
       \/ /\ Fail("connect")
          /\ pc' = "gen_win"
          /\ UNCHANGED << result, exitStatus >>
    /\ UNCHANGED << window, ids, win, font, cursor, issued, outbuf, srv,
                    otherKb, otherPtr, event, log, nRecv, dropRuns >>

\* x11rb::connect(None)? and the screen lookup
Connect ==
    /\ pc = "connect"
    /\ \/ /\ pc' = "gen_win"
          /\ UNCHANGED << result, exitStatus, failures >>
       \/ /\ Fail("connect")
          /\ ReturnErr
    /\ UNCHANGED << window, ids, win, font, cursor, issued, outbuf, srv,
                    otherKb, otherPtr, event, log, nRecv, dropRuns >>

----------------------------------------------------------------------------
(* Window::create *)

GenWin ==
    /\ pc = "gen_win"
    /\ \/ /\ ids' = ids + 1
          /\ win' = ids + 1
          /\ pc' = "create_window"
          /\ UNCHANGED << result, exitStatus, failures >>
       \/ /\ Fail("gen_win")
          /\ ReturnErr
          /\ UNCHANGED << ids, win >>
    /\ UNCHANGED << window, font, cursor, issued, outbuf, srv, otherKb,
                    otherPtr, event, log, nRecv, dropRuns >>

CreateWindow == CreateSend("create_window", Req("CreateWindow", win, 0), "map_window")

MapWindow == CreateSend("map_window", Req("MapWindow", win, 0), "flush1")

\* connection.flush()?: everything queued reaches the server, or the write
\* fails after the server got some prefix of it
CreateFlush(step) ==
    /\ pc = step
    /\ \/ /\ Deliver(Len(outbuf))
          /\ IF step = "flush1"
             THEN pc' = "set_input_focus" /\ window' = window
             ELSE pc' = "wait" /\ window' = [id |-> win]
          /\ UNCHANGED << result, exitStatus, failures >>
       \/ /\ \E k \in 0..Len(outbuf) : Deliver(k)
          /\ Fail(step)
          /\ ReturnErr
          /\ window' = window
    /\ UNCHANGED << ids, win, font, cursor, issued, otherKb, otherPtr, event,
                    log, nRecv, dropRuns >>

\* Flush1 left out: the requests stay queued until the second flush
Flush1_Skipped ==
    /\ pc = "flush1"
    /\ pc' = "set_input_focus"
    /\ UNCHANGED << result, exitStatus, window, ids, win, font, cursor, issued,
                    outbuf, srv, otherKb, otherPtr, event, log, nRecv, failures,
                    dropRuns >>

Flush1 == CreateFlush("flush1")

SetInputFocus ==
    CreateSend("set_input_focus", Req("SetInputFocus", win, 0), "grab_keyboard")

GrabKeyboard == CreateSend("grab_keyboard", Req("GrabKeyboard", win, 0), "gen_font")

GenFont ==
    /\ pc = "gen_font"
    /\ \/ /\ ids' = ids + 1
          /\ font' = ids + 1
          /\ pc' = "open_font"
          /\ UNCHANGED << result, exitStatus, failures >>
       \/ /\ Fail("gen_font")
          /\ ReturnErr
          /\ UNCHANGED << ids, font >>
    /\ UNCHANGED << window, win, cursor, issued, outbuf, srv, otherKb,
                    otherPtr, event, log, nRecv, dropRuns >>

OpenFont == CreateSend("open_font", Req("OpenFont", font, 0), "gen_cursor")

GenCursor ==
    /\ pc = "gen_cursor"
    /\ \/ /\ ids' = ids + 1
          /\ cursor' = ids + 1
          /\ pc' = "create_glyph_cursor"
          /\ UNCHANGED << result, exitStatus, failures >>
       \/ /\ Fail("gen_cursor")
          /\ ReturnErr
          /\ UNCHANGED << ids, cursor >>
    /\ UNCHANGED << window, win, font, issued, outbuf, srv, otherKb,
                    otherPtr, event, log, nRecv, dropRuns >>

CreateGlyphCursor ==
    CreateSend("create_glyph_cursor", Req("CreateGlyphCursor", cursor, font),
               "grab_pointer")

GrabPointer == CreateSend("grab_pointer", Req("GrabPointer", win, cursor), "flush2")

\* Flush2 in a main that binds the window with `let _ =`: the value is
\* dropped as soon as create has returned
Flush2_DropAtOnce ==
    /\ pc = "flush2"
    /\ \/ /\ Deliver(Len(outbuf))
          /\ window' = [id |-> win]
          /\ pc' = "drop_ungrab_kb"
          /\ dropRuns' = dropRuns + 1
          /\ UNCHANGED << result, exitStatus, failures >>
       \/ /\ \E k \in 0..Len(outbuf) : Deliver(k)
          /\ Fail("flush2")
          /\ ReturnErr
          /\ UNCHANGED << window, dropRuns >>
    /\ UNCHANGED << ids, win, font, cursor, issued, otherKb, otherPtr, event,
                    log, nRecv >>

\* Flush2 in a create that builds the Window before the flush, so that an
\* error of the flush drops it
Flush2_DropOnError ==
    /\ pc = "flush2"
    /\ \/ /\ Deliver(Len(outbuf))
          /\ window' = [id |-> win]
          /\ pc' = "wait"
          /\ UNCHANGED << result, exitStatus, failures, dropRuns >>
       \/ /\ \E k \in 0..Len(outbuf) : Deliver(k)
          /\ Fail("flush2")
          /\ result' = "err"
          /\ pc' = "drop_ungrab_kb"
          /\ dropRuns' = dropRuns + 1
          /\ UNCHANGED << window, exitStatus >>
    /\ UNCHANGED << ids, win, font, cursor, issued, otherKb, otherPtr, event,
                    log, nRecv >>

\* Flush2 in a create that reads the grab replies and returns an error when
\* a grab was refused
Flush2_ChecksReplies ==
    /\ pc = "flush2"
    /\ \/ /\ Deliver(Len(outbuf))
          /\ IF srv'.kbGrab # {} /\ srv'.ptrGrab # {}
             THEN /\ window' = [id |-> win]
                  /\ pc' = "wait"
                  /\ UNCHANGED << result, exitStatus >>
             ELSE /\ ReturnErr
                  /\ window' = window
          /\ UNCHANGED failures
       \/ /\ \E k \in 0..Len(outbuf) : Deliver(k)
          /\ Fail("flush2")
          /\ ReturnErr
          /\ window' = window
    /\ UNCHANGED << ids, win, font, cursor, issued, otherKb, otherPtr, event,
                    log, nRecv, dropRuns >>

\* the second flush and Ok(Self { id: win, conn: connection })
Flush2 == CreateFlush("flush2")

----------------------------------------------------------------------------
(* The dispatch loop, lines 117-183 *)

\* Drop::drop is entered when _window goes out of scope
EnterDrop ==
    /\ pc' = "drop_ungrab_kb"
    /\ dropRuns' = dropRuns + 1

\* Receive that tries again after an error
Receive_Retry ==
    /\ pc = "wait"
    /\ \/ /\ nRecv < MaxEvents
          /\ \E e \in Events(window.id) : event' = e
          /\ nRecv' = nRecv + 1
          /\ pc' = "dispatch"
          /\ UNCHANGED << result, failures, dropRuns >>
       \/ /\ Fail("wait_for_event")
          /\ pc' = "wait"
          /\ UNCHANGED << result, dropRuns, event, nRecv >>
    /\ UNCHANGED << exitStatus, window, ids, win, font, cursor, issued, outbuf,
                    srv, otherKb, otherPtr, log >>

\* conn.wait_for_event()?
Receive ==
    /\ pc = "wait"
    /\ \/ /\ nRecv < MaxEvents
          /\ \E e \in Events(window.id) : event' = e
          /\ nRecv' = nRecv + 1
          /\ pc' = "dispatch"
          /\ UNCHANGED << result, failures, dropRuns >>
       \/ /\ Fail("wait_for_event")
          /\ result' = "err"
          /\ EnterDrop
          /\ UNCHANGED << event, nRecv >>
    /\ UNCHANGED << exitStatus, window, ids, win, font, cursor, issued, outbuf,
                    srv, otherKb, otherPtr, log >>

\* match event { ... }
Dispatch ==
    /\ pc = "dispatch"
    /\ log' = Append(log, [ev |-> event, lines |-> Report(event),
                           cont |-> Continues(event)])
    /\ event' = NoEvent
    /\ IF Continues(event)
       THEN pc' = "wait" /\ UNCHANGED << result, dropRuns >>
       ELSE result' = "ok" /\ EnterDrop
    /\ UNCHANGED << exitStatus, window, ids, win, font, cursor, issued, outbuf,
                    srv, otherKb, otherPtr, nRecv, failures >>

----------------------------------------------------------------------------
(* Drop for Window, lines 92-106 *)

\* self.conn.ungrab_xxx(CURRENT_TIME).expect(..)
DropSend(step, r, next) ==
    /\ pc = step
    /\ \/ /\ issued' = Append(issued, r)
          /\ outbuf' = Append(outbuf, r)
          /\ pc' = next
          /\ UNCHANGED << exitStatus, failures >>
       \/ /\ Fail(step)
          /\ Panic
          /\ UNCHANGED << issued, outbuf >>
    /\ UNCHANGED << result, window, ids, win, font, cursor, srv, otherKb,
                    otherPtr, event, log, nRecv, dropRuns >>

\* .check().expect(..): a round trip, so on success the server has processed
\* everything queued; on a connection error it got some prefix
DropCheck(step, next) ==
    /\ pc = step
    /\ \/ /\ Deliver(Len(outbuf))
          /\ pc' = next
          /\ UNCHANGED << exitStatus, failures >>
       \/ /\ \E k \in 0..Len(outbuf) : Deliver(k)
          /\ Fail(step)
          /\ Panic
    /\ UNCHANGED << result, window, ids, win, font, cursor, issued, otherKb,
                    otherPtr, event, log, nRecv, dropRuns >>

DropUngrabKeyboard ==
    DropSend("drop_ungrab_kb", Req("UngrabKeyboard", 0, 0), "drop_check_kb")

\* DropCheckKeyboard without the .check(): the cookie is dropped unverified
DropCheckKeyboard_Unverified ==
    /\ pc = "drop_check_kb"
    /\ pc' = "drop_ungrab_ptr"
    /\ UNCHANGED << result, exitStatus, window, ids, win, font, cursor, issued,
                    outbuf, srv, otherKb, otherPtr, event, log, nRecv, failures,
                    dropRuns >>

DropCheckKeyboard == DropCheck("drop_check_kb", "drop_ungrab_ptr")

\* DropUngrabPointer that ungrabs the keyboard a second time
DropUngrabPointer_Keyboard ==
    DropSend("drop_ungrab_ptr", Req("UngrabKeyboard", 0, 0), "drop_check_ptr")

DropUngrabPointer ==
    DropSend("drop_ungrab_ptr", Req("UngrabPointer", 0, 0), "drop_check_ptr")

DropCheckPointer == DropCheck("drop_check_ptr", "drop_flush")

\* self.conn.flush().expect(..), after which main returns `result`
DropFlush ==
    /\ pc = "drop_flush"
    /\ \/ /\ Deliver(Len(outbuf))
          /\ pc' = "exited"
          /\ exitStatus' = MainStatus(result)
          /\ UNCHANGED failures
       \/ /\ \E k \in 0..Len(outbuf) : Deliver(k)
          /\ Fail("drop_flush")
          /\ Panic
    /\ UNCHANGED << result, window, ids, win, font, cursor, issued, otherKb,
                    otherPtr, event, log, nRecv, dropRuns >>

----------------------------------------------------------------------------
(* Specification *)

Init ==
    /\ pc = "connect"
    /\ result = "none"
    /\ exitStatus = Running
    /\ window = NoWindow
    /\ ids = 0
    /\ win = 0
    /\ font = 0
    /\ cursor = 0
    /\ issued = << >>
    /\ outbuf = << >>
    /\ srv = InitSrv
    /\ otherKb \in BOOLEAN
    /\ otherPtr \in BOOLEAN
    /\ event = NoEvent
    /\ log = << >>
    /\ nRecv = 0
    /\ failures = {}
    /\ dropRuns = 0

Next ==
    \/ Connect
    \/ GenWin
    \/ CreateWindow
    \/ MapWindow
    \/ Flush1
    \/ SetInputFocus
    \/ GrabKeyboard
    \/ GenFont
    \/ OpenFont
    \/ GenCursor
    \/ CreateGlyphCursor
    \/ GrabPointer
    \/ Flush2
    \/ Receive
    \/ Dispatch
    \/ DropUngrabKeyboard
    \/ DropCheckKeyboard
    \/ DropUngrabPointer
    \/ DropCheckPointer
    \/ DropFlush

Spec == Init /\ [][Next]_vars

\* the program's own steps: everything but the arrival of an event, which is
\* the server's doing.  The thread is never preempted for good, and every
\* call that has been made returns.
ProgramStep ==
    \/ Connect
    \/ GenWin
    \/ CreateWindow
    \/ MapWindow
    \/ Flush1
    \/ SetInputFocus
    \/ GrabKeyboard
    \/ GenFont
    \/ OpenFont
    \/ GenCursor
    \/ CreateGlyphCursor
    \/ GrabPointer
    \/ Flush2
    \/ Dispatch
    \/ DropUngrabKeyboard
    \/ DropCheckKeyboard
    \/ DropUngrabPointer
    \/ DropCheckPointer
    \/ DropFlush

LiveSpec == Init /\ [][Next]_vars /\ WF_vars(ProgramStep)

----------------------------------------------------------------------------
(* Vocabulary of the properties *)

DropSteps == {"drop_ungrab_kb", "drop_check_kb", "drop_ungrab_ptr",
              "drop_check_ptr", "drop_flush"}

Exited == pc = "exited"

\* number of requests with this opcode the client has issued
NumIssued(op) == Cardinality({i \in 1..Len(issued) : issued[i].op = op})

\* the loop has dispatched a ButtonPress with detail 1
Button1Seen ==
    \E i \in 1..Len(log) : log[i].ev.kind = "ButtonPress" /\ log[i].ev.detail = 1

\* Window::create has returned Ok and the value has not been dropped yet
CreateReturnedOk == window # NoWindow /\ dropRuns = 0

----------------------------------------------------------------------------
(* Properties *)

\* C1: a grab acquired by Window::create is released by teardown before the
\* process ends, on every exit path, and there is never more than one window
\* or more than one keyboard or pointer grab.
C1_GrabLifetime ==
    /\ Exited => (srv.kbGrab = {} /\ srv.ptrGrab = {})
    /\ Cardinality(srv.windows) <= 1
    /\ Cardinality(srv.kbGrab) <= 1
    /\ Cardinality(srv.ptrGrab) <= 1
    /\ srv.kbGrabbed <= 1
    /\ srv.ptrGrabbed <= 1

\* C2: whenever Window::create has returned success, exactly one keyboard
\* grab and exactly one pointer grab are active on the server, both for the
\* created window.
C2_GrabsActiveAfterCreate ==
    CreateReturnedOk => (srv.kbGrab = {window.id} /\ srv.ptrGrab = {window.id})

C4_TerminationDeterminism ==
    [][pc = "dispatch" =>
          /\ (pc' # "wait") <=> (event.kind = "ButtonPress" /\ event.detail = 1)
          /\ pc' = "wait" \/ (pc' = "drop_ungrab_kb" /\ result' = "ok")]_vars

\* a ButtonPress with detail 255 kept the loop receiving, the next one with
\* detail 1 ended it
C4_Witness ==
    /\ Len(log) = 2
    /\ log[1].ev.kind = "ButtonPress" /\ log[1].ev.detail = 255 /\ log[1].cont
    /\ log[2].ev.kind = "ButtonPress" /\ log[2].ev.detail = 1 /\ ~log[2].cont
    /\ pc = "drop_ungrab_kb"

\* C5: the process ends with success status exactly when the loop observed a
\* ButtonPress with detail 1 and no step failed; whenever a setup step, the
\* receive or a teardown step failed it ends with a failure status.
C5_ExitStatus ==
    Exited =>
        /\ exitStatus \in {ExitSuccess, ExitFailure, ExitPanic}
        /\ (Button1Seen /\ failures = {}) => exitStatus = ExitSuccess
        /\ failures # {} => exitStatus # ExitSuccess
        /\ exitStatus = ExitSuccess => Button1Seen

C5_Witness ==
    /\ Exited
    /\ Button1Seen
    /\ exitStatus = ExitSuccess
    /\ srv.kbReleased = 1

\* C6: if no call ever fails and a ButtonPress with detail 1 is eventually
\* dispatched, the process eventually ends with exit status 0 and neither
\* grab active.
C6_NormalSession ==
    ([](failures = {}) /\ <>Button1Seen) =>
        <>(Exited /\ exitStatus = ExitSuccess /\ srv.kbGrab = {} /\ srv.ptrGrab = {}
              /\ srv.kbUngrabs = 1 /\ srv.ptrUngrabs = 1)

\* the normal session: Exposure, then ButtonPress 1, both grabs had been
\* granted and have been released, exit status 0
C6_Witness ==
    /\ Exited
    /\ exitStatus = ExitSuccess
    /\ Len(log) = 2
    /\ log[1].ev.kind = "Expose"
    /\ log[2].ev.kind = "ButtonPress" /\ log[2].ev.detail = 1
    /\ srv.kbReleased = 1 /\ srv.ptrReleased = 1
    /\ srv.kbGrab = {} /\ srv.ptrGrab = {}

\* C7: when connecting fails the process ends with failure status, no request
\* of any kind has been issued (no window, no grab, no ungrab) and teardown
\* does not run.
C7_SetupFailure ==
    ("connect" \in failures) =>
        /\ Exited
        /\ exitStatus = ExitFailure
        /\ issued = << >>
        /\ outbuf = << >>
        /\ srv = InitSrv
        /\ window = NoWindow
        /\ dropRuns = 0

C7_Witness == Exited /\ failures = {"connect"}

\* C8: once the receive has failed the loop is over with an error: no further
\* event is received, dispatched or reported, and the process ends with a
\* failure status.
C8_ReceiveFailureFatal ==
    /\ []( ("wait_for_event" \in failures) =>
              /\ pc \in DropSteps \cup {"exited"}
              /\ result = "err"
              /\ event = NoEvent
              /\ Exited => exitStatus # ExitSuccess )
    /\ [][("wait_for_event" \in failures) =>
              (nRecv' = nRecv /\ log' = log /\ event' = event)]_vars

\* the receive failed after one event had been handled, and the process ended
C8_Witness ==
    /\ Exited
    /\ "wait_for_event" \in failures
    /\ nRecv = 1
    /\ Len(log) = 1

\* C9: the dispatch of an event of a kind outside the eight recognized ones
\* prints exactly one line, the fallback report of that event, and puts the
\* loop back into the receiving state; the process keeps running.
C9_FallbackTotality ==
    [][(pc = "dispatch" /\ event.kind \notin RecognizedKinds) =>
          /\ pc' = "wait"
          /\ exitStatus' = Running
          /\ Len(log') = Len(log) + 1
          /\ log'[Len(log')].ev = event
          /\ Len(log'[Len(log')].lines) = 1
          /\ log'[Len(log')].lines[1].fmt = "Unknown event"
          /\ log'[Len(log')].lines[1].dbg = event.kind
          /\ log'[Len(log')].cont]_vars

\* a protocol error delivered as an event was reported and the loop went on
\* to handle the next event
C9_Witness ==
    /\ Len(log) = 2
    /\ log[1].ev.kind = "Error"
    /\ log[1].cont
    /\ pc = "wait"

C11_ScrollEvents ==
    \A i \in 1..Len(log) :
        (log[i].ev.kind = "ButtonPress" /\ log[i].ev.detail # 1) =>
            /\ log[i].cont
            /\ Len(log[i].lines) = 2
            /\ log[i].lines[2].fmt =
                  (CASE log[i].ev.detail = 4 -> "Wheel Button up"
                     [] log[i].ev.detail = 5 -> "Wheel Button down"
                     [] OTHER -> "Button pressed")
            /\ log[i].ev.detail \notin {4, 5} =>
                  log[i].lines[2].args[1] = log[i].ev.detail
            /\ i = Len(log) =>
                  (pc \in {"wait", "dispatch"} \/ "wait_for_event" \in failures)

\* wheel up then wheel down were reported and the loop is receiving again
C11_Witness ==
    /\ Len(log) = 2
    /\ log[1].ev.kind = "ButtonPress" /\ log[1].ev.detail = 4
    /\ log[1].lines[2].fmt = "Wheel Button up"
    /\ log[2].ev.kind = "ButtonPress" /\ log[2].ev.detail = 5
    /\ log[2].lines[2].fmt = "Wheel Button down"
    /\ pc = "wait"

\* C12: every event the receive returned is dispatched before the next
\* receive and before the loop ends, its dispatch prints at least one line,
\* the terminating ButtonPress included, and the first line of a ButtonPress
\* is its modifier state.
C12_EveryEventReported ==
    /\ nRecv = Len(log) + (IF pc = "dispatch" THEN 1 ELSE 0)
    /\ \A i \in 1..Len(log) :
          /\ Len(log[i].lines) >= 1
          /\ log[i].ev.kind = "ButtonPress" =>
                /\ log[i].lines[1].fmt = "state"
                /\ log[i].lines[1].args = << log[i].ev.state >>

\* the terminating press was reported by its modifier state alone
C12_Witness ==
    /\ Len(log) = 2
    /\ log[2].ev.kind = "ButtonPress" /\ log[2].ev.detail = 1
    /\ log[2].ev.state = 1
    /\ log[2].lines = << Line("state", << 1 >>) >>
    /\ pc = "drop_ungrab_kb"

\* position of the first request with this opcode among the issued ones
\* (0 = none)
IndexOf(op) ==
    IF NumIssued(op) = 0 THEN 0
    ELSE CHOOSE i \in 1..Len(issued) :
            /\ issued[i].op = op
            /\ \A j \in 1..(i - 1) : issued[j].op # op

\* C13: teardown issues the keyboard ungrab first; the pointer ungrab is
\* issued only once the server has processed the keyboard ungrab and its
\* check has returned without error; the final flush is reached only once
\* the pointer ungrab has been processed and checked; and a teardown step
\* that fails ends the process by a panic with no later teardown step done.
C13_TeardownOrder ==
    /\ NumIssued("UngrabPointer") >= 1 =>
          /\ IndexOf("UngrabKeyboard") >= 1
          /\ IndexOf("UngrabKeyboard") < IndexOf("UngrabPointer")
          /\ srv.kbUngrabs = 1
          /\ failures \cap {"drop_ungrab_kb", "drop_check_kb"} = {}
    /\ (pc = "drop_flush" \/ "drop_flush" \in failures
           \/ (Exited /\ dropRuns = 1 /\ failures \cap DropSteps = {})) =>
          /\ srv.kbUngrabs = 1
          /\ srv.ptrUngrabs = 1
          /\ failures \cap (DropSteps \ {"drop_flush"}) = {}
    /\ failures \cap DropSteps # {} =>
          /\ Exited
          /\ exitStatus = ExitPanic
          /\ Cardinality(failures \cap DropSteps) = 1
    /\ "drop_ungrab_kb" \in failures =>
          (NumIssued("UngrabKeyboard") = 0 /\ NumIssued("UngrabPointer") = 0)
    /\ failures \cap {"drop_check_kb", "drop_ungrab_ptr"} # {} =>
          (NumIssued("UngrabPointer") = 0 /\ srv.ptrUngrabs = 0)

\* the check of the pointer ungrab failed after the keyboard ungrab had been
\* verified, and the process ended by a panic
C13_Witness ==
    /\ Exited
    /\ "drop_check_ptr" \in failures
    /\ srv.kbUngrabs = 1
    /\ exitStatus = ExitPanic

\* the requests of Window::create, in the order of the source
CreateOrder == << "CreateWindow", "MapWindow", "SetInputFocus", "GrabKeyboard",
                  "OpenFont", "CreateGlyphCursor", "GrabPointer" >>

\* C14: Window::create issues create window, map window, (flush,) set input
\* focus, grab keyboard, open font, create glyph cursor, grab pointer, (flush)
\* in this order: by the time a request after the first flush is issued the
\* server has the window created and mapped, the pointer grab names the
\* cursor created before it, and when create has returned success nothing it
\* issued is still queued.
C14_SetupOrder ==
    /\ \A i \in 1..Len(issued) :
          i <= Len(CreateOrder) => issued[i].op = CreateOrder[i]
    /\ Len(issued) >= 3 => (win \in srv.windows /\ win \in srv.mapped)
    /\ pc = "set_input_focus" => outbuf = << >>
    /\ Len(issued) >= 7 =>
          /\ issued[6].id = cursor
          /\ issued[7].arg = issued[6].id
          /\ issued[6].arg = issued[5].id
    /\ window # NoWindow =>
          /\ Len(issued) >= Len(CreateOrder)
          /\ \A i \in 1..Len(outbuf) :
                outbuf[i].op \in {"UngrabKeyboard", "UngrabPointer"}
          /\ srv.windows = {win} /\ srv.mapped = {win}
          /\ srv.fonts = {font} /\ srv.cursors = {cursor}
    /\ CreateReturnedOk => outbuf = << >>

\* create has returned success: seven requests issued, none queued, and the
\* pointer grab was granted with the cursor
C14_Witness ==
    /\ CreateReturnedOk
    /\ pc = "wait"
    /\ Len(issued) = 7
    /\ outbuf = << >>
    /\ srv.ptrGrab = {win}
    /\ srv.cursors = {cursor}

\* the fallible steps of Window::create
CreateSteps == {"gen_win", "create_window", "map_window", "flush1",
                "set_input_focus", "grab_keyboard", "gen_font", "open_font",
                "gen_cursor", "create_glyph_cursor", "grab_pointer", "flush2"}

\* the loop is receiving or dispatching
InLoop == pc \in {"wait", "dispatch"}

\* the loop has ended: by the terminating event or by a receive failure
LoopEnded ==
    \/ (Len(log) > 0 /\ ~log[Len(log)].cont)
    \/ "wait_for_event" \in failures

\* C15: while the loop is receiving or dispatching, the window exists, no
\* ungrab has been issued, teardown has not begun and every grab the server
\* granted is still held; teardown begins, and an ungrab is issued, only
\* after the loop has ended by the terminating event or a receive failure.
C15_GrabsHeldDuringLoop ==
    /\ InLoop =>
          /\ window # NoWindow
          /\ dropRuns = 0
          /\ NumIssued("UngrabKeyboard") = 0
          /\ NumIssued("UngrabPointer") = 0
          /\ srv.kbGrab = (IF srv.kbGrabbed = 1 THEN {window.id} ELSE {})
          /\ srv.ptrGrab = (IF srv.ptrGrabbed = 1 THEN {window.id} ELSE {})
          /\ ~LoopEnded
    /\ dropRuns > 0 => (LoopEnded /\ ~InLoop /\ event = NoEvent)
    /\ (NumIssued("UngrabKeyboard") > 0 \/ NumIssued("UngrabPointer") > 0) =>
          dropRuns > 0

\* two events have been handled, both grabs are still held and the loop is
\* receiving
C15_Witness ==
    /\ pc = "wait"
    /\ Len(log) = 2
    /\ srv.kbGrab = {window.id}
    /\ srv.ptrGrab = {window.id}
    /\ NumIssued("UngrabKeyboard") = 0

\* C16: teardown never runs twice; it has run exactly once when the process
\* ends after Window::create returned success, and it never runs when
\* create returned an error, at whichever step; the loop is entered only
\* after create returned success.
C16_TeardownRunsOnce ==
    /\ dropRuns <= 1
    /\ window = NoWindow => dropRuns = 0
    /\ (Exited /\ window # NoWindow) => dropRuns = 1
    /\ failures \cap (CreateSteps \cup {"connect"}) # {} =>
          /\ Exited
          /\ window = NoWindow
          /\ dropRuns = 0
          /\ nRecv = 0
          /\ NumIssued("UngrabKeyboard") = 0
          /\ NumIssued("UngrabPointer") = 0
    /\ (InLoop \/ nRecv > 0) =>
          (window # NoWindow /\ failures \cap CreateSteps = {})

\* create failed at its last step, after the grabs had been granted, and the
\* process ended without a teardown
C16_Witness ==
    /\ Exited
    /\ "flush2" \in failures
    /\ srv.kbGrab # {}
    /\ srv.ptrGrab # {}
    /\ dropRuns = 0

\* C17: once Window::create is over, it has returned success exactly when
\* none of its calls returned an error, whatever the server answered to the
\* grab requests.
C17_CreateIgnoresReplies ==
    (pc \notin CreateSteps \cup {"connect"}) =>
        (window # NoWindow <=> failures \cap (CreateSteps \cup {"connect"}) = {})

\* both grabs were refused because other clients hold them, and create has
\* returned success all the same
C17_Witness ==
    /\ CreateReturnedOk
    /\ pc = "wait"
    /\ otherKb /\ otherPtr
    /\ srv.kbGrab = {} /\ srv.ptrGrab = {}
    /\ srv.kbGrabbed = 0 /\ srv.ptrGrabbed = 0

====
